---- MODULE Spec2Model ----
(***************************************************************************)
(* The createProject conversation of gmonlink-bot                          *)
(* (src/lib/conversations/create-project.ts).                              *)
(*                                                                         *)
(* A run of createProject is a process: pc[f] is the await at which run f  *)
(* is suspended, loc[f] its local variables, chat[f] the messages and      *)
(* message edits it has sent to its user, in order.  The three process-    *)
(* wide records, the projects table, the storage bucket and the alerts     *)
(* channel are shared by all runs.  Calls of the Telegram API that send or *)
(* edit a message return; the file download, the storage upload and the    *)
(* insert can fail.  In Spec one run is in progress at a time.             *)
(*                                                                         *)
(* Strings are sequences of one-character strings.  The absent string      *)
(* (null / undefined) is the empty sequence: Telegram has no empty text    *)
(* message and the handle group of both patterns is a "+" group, so no     *)
(* string of the program is empty.  An absent object is <<>>, a present    *)
(* one <<object>>.                                                         *)
(***************************************************************************)
EXTENDS Integers, Sequences, FiniteSets, TLC

\* ------------------------------------------------------------- bounds
\* Runs of createProject that can be in progress at once.
NumFlows == 2
\* Runs of createProject started in one behaviour.
MaxRuns == 2
\* Updates the runs skip in one behaviour (a non-text reply at a text
\* step, a non-photo message at the image step).
MaxSkips == 1

Flows == 1..NumFlows
UserIds == <<"u1", "u2">>
Users == {UserIds[i] : i \in 1..Len(UserIds)}

Null == <<>>

\* ------------------------------------------------------------- strings
Lower == {"a","b","c","d","e","f","g","h","i","j","k","l","m",
          "n","o","p","q","r","s","t","u","v","w","x","y","z"}
Upper == {"A","B","C","D","E","F","G","H","I","J","K","L","M",
          "N","O","P","Q","R","S","T","U","V","W","X","Y","Z"}
Digit == {"0","1","2","3","4","5","6","7","8","9"}

UpperSeq == <<"A","B","C","D","E","F","G","H","I","J","K","L","M",
              "N","O","P","Q","R","S","T","U","V","W","X","Y","Z">>
LowerSeq == <<"a","b","c","d","e","f","g","h","i","j","k","l","m",
              "n","o","p","q","r","s","t","u","v","w","x","y","z">>

\* The /i flag: characters are compared after case folding.
Fold(c) ==
    IF c \in Upper
    THEN LowerSeq[CHOOSE i \in 1..26 : UpperSeq[i] = c]
    ELSE c

S_http    == <<"h","t","t","p">>
S_sep     == <<":","/","/">>
S_www     == <<"w","w","w",".">>
S_twitter == <<"t","w","i","t","t","e","r",".","c","o","m","/">>
S_Twitter == <<"T","w","i","t","t","e","r",".","c","o","m","/">>
S_github  == <<"g","i","t","h","u","b",".","c","o","m","/">>
S_no      == <<"n","o">>

\* twitterInput.startsWith("http"): case-sensitive.
StartsWith(s, p) ==
    /\ Len(s) >= Len(p)
    /\ SubSeq(s, 1, Len(p)) = p

\* The literal lit matches url at position i (1-based), ignoring case.
LitAt(url, i, lit) ==
    /\ i + Len(lit) - 1 <= Len(url)
    /\ \A k \in 1..Len(lit) : Fold(url[i + k - 1]) = lit[k]

\* [a-zA-Z0-9_] for twitter, [a-zA-Z0-9_-] for github.
HandleChar(c, platform) ==
    \/ c \in Lower \cup Upper \cup Digit
    \/ c = "_"
    \/ platform = "github" /\ c = "-"

HostOf(platform) == IF platform = "twitter" THEN S_twitter ELSE S_github

\* The position after the optional group (?:https?:\/\/)? tried at i: the
\* group is greedy, so it is taken when it matches.  Skipping a matching
\* group never helps: the host literal does not start with "h".
AfterProto(url, i) ==
    IF LitAt(url, i, S_http \o <<"s">> \o S_sep) THEN i + 8
    ELSE IF LitAt(url, i, S_http \o S_sep) THEN i + 7
    ELSE i

\* The position after the optional group (?:www\.)? tried at i.
AfterWww(url, i) == IF LitAt(url, i, S_www) THEN i + 4 ELSE i

\* The end of the longest run of handle characters starting at position j
\* (j - 1 when there is none): the greedy "+" group.
RECURSIVE RunEnd(_, _, _)
RunEnd(url, j, platform) ==
    IF j <= Len(url) /\ HandleChar(url[j], platform)
    THEN RunEnd(url, j + 1, platform)
    ELSE j - 1

\* The capture group of a match that starts at position i, Null if the
\* pattern does not match there.
MatchAt(url, i, platform) ==
    LET h == AfterWww(url, AfterProto(url, i))
        j == h + Len(HostOf(platform))
        e == RunEnd(url, j, platform)
    IN IF LitAt(url, h, HostOf(platform)) /\ e >= j
       THEN SubSeq(url, j, e)
       ELSE Null

\* url.match(regex): the leftmost match; match[1] or null.
extractUsernameFromUrl(url, platform) ==
    LET at == {i \in 1..Len(url) : MatchAt(url, i, platform) # Null}
    IN IF at = {} THEN Null
       ELSE MatchAt(url, CHOOSE i \in at : \A k \in at : i <= k, platform)

\* `https://twitter.com/${twitterId}`, `https://github.com/${githubId}`
LinkOf(id, platform) ==
    S_http \o <<"s">> \o S_sep \o HostOf(platform) \o id

\* let id = input; if (input.startsWith("http")) id = extract(input);
\* Null when the extraction fails (the flow then returns).
HandleOf(input, platform) ==
    IF StartsWith(input, S_http)
    THEN extractUsernameFromUrl(input, platform)
    ELSE input

\* const link = id !== "no" ? `https://{platform}.com/${id}` : null;
LinkFor(id, platform) ==
    IF id # S_no THEN LinkOf(id, platform) ELSE Null

\* Mutant: the GitHub entry is spread first.
LinksOf_GithubFirst(twitterLink, githubLink) ==
    (IF githubLink # Null
     THEN <<[title |-> "GitHub", url |-> githubLink]>> ELSE <<>>)
    \o
    (IF twitterLink # Null
     THEN <<[title |-> "Twitter", url |-> twitterLink]>> ELSE <<>>)

\* links: [...(twitterLink ? [{Twitter}] : []), ...(githubLink ? [{GitHub}] : [])]
LinksOf(twitterLink, githubLink) ==
    (IF twitterLink # Null
     THEN <<[title |-> "Twitter", url |-> twitterLink]>> ELSE <<>>)
    \o
    (IF githubLink # Null
     THEN <<[title |-> "GitHub", url |-> githubLink]>> ELSE <<>>)

\* ------------------------------------------------------------- inputs
\* What the user may type at the name and description steps.
Names == {<<"a","c","m","e">>}
Descriptions == {<<"w","i","d","g","e","t">>}

\* Handles tried at the Twitter and GitHub steps, bare or inside a URL.
TwitterHandles == {<<"j","_","1">>, S_no}
GithubHandles  == {<<"a","-","b">>, S_no}

Https == S_http \o <<"s">> \o S_sep
Http  == S_http \o S_sep

\* Profile URLs: both protocols, with and without www., a host in
\* capitals, a trailing path, the handle "no"; a URL of another site and
\* a URL with no handle.
TwitterInputs ==
    TwitterHandles
    \cup {Https \o S_twitter \o S_no,
          Http \o S_www \o S_Twitter \o <<"j","_","1","/">>,
          Https \o <<"x",".","c","o","m","/","j">>}

GithubInputs ==
    GithubHandles
    \cup {Https \o S_github \o <<"a","-","b">>,
          Https \o S_github}

\* The file path getFile resolves the photo to.
FilePaths == {<<"p","/","f",".","p","n","g">>}

\* ------------------------------------------------------------- state
VARIABLES
    pc,                      \* pc[f]: where run f is suspended
    loc,                     \* loc[f]: the local variables of run f
    chat,                    \* chat[f]: what run f sent to its user, in order
    isInConversationRecord,  \* records.ts, keyed by user id
    activeProjectRecord,     \* records.ts, keyed by user id; 0 when unset
    projectRecord,           \* records.ts, keyed by user id; <<>> when unset
    projects,                \* the rows of the projects table, in insert order
    storage,                 \* the object names of the gmon.link bucket
    alerts,                  \* the messages sent to botSettings.alertsChannelId
    dropped,                 \* updates the runs have skipped
    runs                     \* runs started so far

vars == <<pc, loc, chat, isInConversationRecord, activeProjectRecord,
          projectRecord, projects, storage, alerts, dropped, runs>>

TextSteps == {"awaitName", "awaitDescription", "awaitTwitter", "awaitGithub"}
Terminal  == {"returned", "thrown", "done"}

\* The local variables of a run that has not started.  startActive and
\* startProject remember the user's two record entries at line 41,
\* startRows the number of rows the table then had.
NoLocals ==
    [run |-> 0, userId |-> "", username |-> "",
     projectName |-> Null, projectDescription |-> Null,
     twitterInput |-> Null, twitterId |-> Null, twitterLink |-> Null,
     githubInput |-> Null, githubId |-> Null, githubLink |-> Null,
     message |-> <<>>, slug |-> Null, imageData |-> <<>>,
     insertCalls |-> 0, data |-> <<>>,
     startActive |-> 0, startProject |-> <<>>, startRows |-> 0]

Init ==
    /\ pc = [f \in Flows |-> "idle"]
    /\ loc = [f \in Flows |-> NoLocals]
    /\ chat = [f \in Flows |-> <<>>]
    /\ isInConversationRecord = [u \in Users |-> FALSE]
    /\ activeProjectRecord = [u \in Users |-> 0]
    /\ projectRecord = [u \in Users |-> <<>>]
    /\ projects = <<>>
    /\ storage = {}
    /\ alerts = <<>>
    /\ dropped = 0
    /\ runs = 0

Say(f, msgs) == chat' = [chat EXCEPT ![f] = @ \o msgs]

\* One run at a time: every earlier run has ended.
NoRunInProgress == \A g \in Flows : pc[g] \in Terminal \cup {"idle"}

\* Users are numbered in the order they first start a run.
NextUser(u) ==
    \A i, j \in 1..Len(UserIds) :
        (i < j /\ UserIds[j] = u) => isInConversationRecord[UserIds[i]]

\* The run takes the first place that holds no run in progress.
FirstFree(f) ==
    /\ pc[f] \in Terminal \cup {"idle"}
    /\ \A g \in Flows : g < f => pc[g] \notin Terminal \cup {"idle"}

\* Mutant: the flag is not set.
SetInConversation_Forgotten(record, u) == record

\* Mutant: the flag is set under every key.
SetInConversation_AllUsers(record, u) == [v \in DOMAIN record |-> TRUE]

\* isInConversationRecord[userId] = true
SetInConversation(record, u) == [record EXCEPT ![u] = TRUE]

\* Lines 41-48: the user is resolved, the flag is set, the tip and the
\* first prompt are sent; the run suspends in form.text.  The locals of
\* the run that held the place before are gone.
Enter(f, u) ==
    /\ runs < MaxRuns
    /\ FirstFree(f)
    /\ NextUser(u)
    /\ runs' = runs + 1
    /\ loc' = [loc EXCEPT ![f] =
                 [NoLocals EXCEPT !.run = runs + 1,
                                  !.userId = u, !.username = u,
                                  !.startActive = activeProjectRecord[u],
                                  !.startProject = projectRecord[u],
                                  !.startRows = Len(projects)]]
    /\ isInConversationRecord' = SetInConversation(isInConversationRecord, u)
    /\ chat' = [chat EXCEPT ![f] = <<"tip", "prompt1">>]
    /\ pc' = [pc EXCEPT ![f] = "awaitName"]
    /\ UNCHANGED <<activeProjectRecord, projectRecord, projects, storage,
                   alerts, dropped>>

\* A run starts when no other run is in progress.
Start(f, u) ==
    /\ NoRunInProgress
    /\ Enter(f, u)

\* Mutant: the otherwise callback sends the prompt of its step again.
OtherwiseReply_Reprompt(step) ==
    CASE step = "awaitName"        -> "prompt1"
      [] step = "awaitDescription" -> "prompt2"
      [] step = "awaitTwitter"     -> "prompt3"
      [] step = "awaitGithub"      -> "prompt4"

\* Mutant: every otherwise callback replies errorMessages.invalidProjectName.
OtherwiseReply_NameForAll(step) == "invalidProjectName"

\* The otherwise callback of each form.text (lines 52, 60, 66, 84).
OtherwiseReply(step) ==
    CASE step = "awaitName"        -> "invalidProjectName"
      [] step = "awaitDescription" -> "invalidDescription"
      [] step = "awaitTwitter"     -> "invalidTwitterInput"
      [] step = "awaitGithub"      -> "invalidGithubInput"

\* form.text on an update with no text: the otherwise callback replies and
\* the update is skipped; the run stays suspended at the same form.text.
NonTextReply(f) ==
    /\ pc[f] \in TextSteps
    /\ dropped < MaxSkips
    /\ Say(f, <<OtherwiseReply(pc[f])>>)
    /\ dropped' = dropped + 1
    /\ UNCHANGED <<pc, loc, isInConversationRecord, activeProjectRecord,
                   projectRecord, projects, storage, alerts, runs>>

\* Lines 51-58: the name arrives, the second prompt is sent.
NameReply(f, text) ==
    /\ pc[f] = "awaitName"
    /\ loc' = [loc EXCEPT ![f].projectName = text]
    /\ Say(f, <<"prompt2">>)
    /\ pc' = [pc EXCEPT ![f] = "awaitDescription"]
    /\ UNCHANGED <<isInConversationRecord, activeProjectRecord, projectRecord,
                   projects, storage, alerts, dropped, runs>>

\* Lines 59-64: the description arrives, the third prompt is sent.
DescriptionReply(f, text) ==
    /\ pc[f] = "awaitDescription"
    /\ loc' = [loc EXCEPT ![f].projectDescription = text]
    /\ Say(f, <<"prompt3">>)
    /\ pc' = [pc EXCEPT ![f] = "awaitTwitter"]
    /\ UNCHANGED <<isInConversationRecord, activeProjectRecord, projectRecord,
                   projects, storage, alerts, dropped, runs>>

\* Mutant: the validation is missing.
NoHandle_Unchecked(id) == FALSE

\* if (!twitterId), if (!githubId): null (or the empty string).
NoHandle(id) == id = Null

\* Lines 65-82: the Twitter input arrives.  An input that starts with
\* "http" and yields no handle ends the run; otherwise the link is
\* computed and the fourth prompt is sent.
TwitterReply(f, text) ==
    /\ pc[f] = "awaitTwitter"
    /\ LET id == HandleOf(text, "twitter") IN
       IF NoHandle(id)
       THEN /\ loc' = [loc EXCEPT ![f].twitterInput = text]
            /\ Say(f, <<"twitterUrlInvalid">>)
            /\ pc' = [pc EXCEPT ![f] = "returned"]
       ELSE /\ loc' = [loc EXCEPT ![f].twitterInput = text,
                                  ![f].twitterId = id,
                                  ![f].twitterLink = LinkFor(id, "twitter")]
            /\ Say(f, <<"prompt4">>)
            /\ pc' = [pc EXCEPT ![f] = "awaitGithub"]
    /\ UNCHANGED <<isInConversationRecord, activeProjectRecord, projectRecord,
                   projects, storage, alerts, dropped, runs>>

\* Lines 83-100: the GitHub input arrives; as for Twitter, then the fifth
\* prompt.
GithubReply(f, text) ==
    /\ pc[f] = "awaitGithub"
    /\ LET id == HandleOf(text, "github") IN
       IF NoHandle(id)
       THEN /\ loc' = [loc EXCEPT ![f].githubInput = text]
            /\ Say(f, <<"githubUrlInvalid">>)
            /\ pc' = [pc EXCEPT ![f] = "returned"]
       ELSE /\ loc' = [loc EXCEPT ![f].githubInput = text,
                                  ![f].githubId = id,
                                  ![f].githubLink = LinkFor(id, "github")]
            /\ Say(f, <<"prompt5">>)
            /\ pc' = [pc EXCEPT ![f] = "awaitImage"]
    /\ UNCHANGED <<isInConversationRecord, activeProjectRecord, projectRecord,
                   projects, storage, alerts, dropped, runs>>

\* The messages a user can send at the image step.  A photo message lists
\* the file ids of its sizes.
PhotoMessages == {[kind |-> "photo", photo |-> <<"small", "large">>]}
OtherMessages == {[kind |-> "text", photo |-> <<>>],
                  [kind |-> "sticker", photo |-> <<>>]}

\* Mutant: the filter matches no update.
IsPhotoMessage_Never(m) == FALSE

\* The filter "message:photo" of conversation.waitFor.
IsPhotoMessage(m) == m.kind = "photo"

\* if (!message || !message.photo)
NoPhoto(m) == m.photo = <<>>

\* waitFor(["message:photo"]) on an update that does not match the filter:
\* the update is skipped and the run stays suspended at line 101.  Nothing
\* is sent.
NonPhotoMessage(f, m) ==
    /\ pc[f] = "awaitImage"
    /\ ~IsPhotoMessage(m)
    /\ dropped < MaxSkips
    /\ dropped' = dropped + 1
    /\ UNCHANGED <<pc, loc, chat, isInConversationRecord, activeProjectRecord,
                   projectRecord, projects, storage, alerts, runs>>

DigitSeq == <<"1","2","3","4","5","6","7","8","9">>

\* createSlug(projectName, supabase) of ../utils: the name, or the name
\* with the first numeric suffix that no row of the table uses.
createSlug(name, table) ==
    LET used == {table[i].slug : i \in 1..Len(table)}
        free == {k \in 1..9 : name \o <<"-", DigitSeq[k]>> \notin used}
    IN IF name \notin used THEN name
       ELSE name \o <<"-", DigitSeq[CHOOSE k \in free : \A j \in free : k <= j]>>

\* Lines 101-109: waitFor returns a message that matches the filter.  A
\* message without photo ends the run; otherwise the status message is
\* sent and the slug is created.
PhotoMessage(f, m) ==
    /\ pc[f] = "awaitImage"
    /\ IsPhotoMessage(m)
    /\ IF NoPhoto(m)
       THEN /\ loc' = [loc EXCEPT ![f].message = <<m>>]
            /\ Say(f, <<"invalidImage">>)
            /\ pc' = [pc EXCEPT ![f] = "returned"]
       ELSE /\ loc' = [loc EXCEPT ![f].message = <<m>>,
                                  ![f].slug = createSlug(loc[f].projectName,
                                                         projects)]
            /\ Say(f, <<"uploading">>)
            /\ pc' = [pc EXCEPT ![f] = "uploading"]
    /\ UNCHANGED <<isInConversationRecord, activeProjectRecord, projectRecord,
                   projects, storage, alerts, dropped, runs>>

\* How lines 113-135 can end: every call returns, or one of them fails.
UploadOutcomes ==
    {"ok", "getFileError", "fetchError", "noFilePath", "storageError"}

\* Mutant: the error the storage returns is not thrown (line 135 missing).
UploadThrows_StorageErrorIgnored(outcome) ==
    outcome \notin {"ok", "storageError"}

\* The try block throws before line 137.
UploadThrows(outcome) == outcome # "ok"

\* image.file_path.split(".").pop(): what follows the last ".", the whole
\* path when it has none.
RECURSIVE LastSegment(_)
LastSegment(path) ==
    IF path = <<>> \/ path[Len(path)] = "." THEN <<>>
    ELSE LastSegment(SubSeq(path, 1, Len(path) - 1)) \o <<path[Len(path)]>>

\* const fileExtension = image.file_path.split(".").pop() || "jpg";
\* const fileName = `${slug}.${fileExtension}`;
FileName(slug, path) ==
    slug \o <<".">> \o
    (IF LastSegment(path) = <<>> THEN <<"j","p","g">> ELSE LastSegment(path))

\* Lines 111-142: the try block and its catch.  The object is stored and
\* imageData is set only when no call failed; the catch edits the status
\* message and the run goes on.
Upload(f, outcome, path) ==
    /\ pc[f] = "uploading"
    /\ IF UploadThrows(outcome)
       THEN /\ Say(f, <<"edit:uploadError">>)
            /\ UNCHANGED <<loc, storage>>
       ELSE /\ storage' = storage \cup {FileName(loc[f].slug, path)}
            /\ loc' = [loc EXCEPT ![f].imageData =
                         <<[fullPath |-> FileName(loc[f].slug, path)]>>]
            /\ Say(f, <<"edit:imageUploaded">>)
    /\ pc' = [pc EXCEPT ![f] = "uploaded"]
    /\ UNCHANGED <<isInConversationRecord, activeProjectRecord, projectRecord,
                   projects, alerts, dropped, runs>>

\* Mutant: the read is guarded (imageData?.fullPath) and never throws.
ReadThrows_Guarded(imageData) == FALSE

\* imageData.fullPath with imageData undefined is a TypeError.
ReadThrows(imageData) == imageData = <<>>

\* Lines 144-149: the status message is edited, imageData.fullPath is
\* read, the status message is edited again.
AfterUpload(f) ==
    /\ pc[f] = "uploaded"
    /\ IF ReadThrows(loc[f].imageData)
       THEN /\ Say(f, <<"edit:imageUploaded2">>)
            /\ pc' = [pc EXCEPT ![f] = "thrown"]
       ELSE /\ Say(f, <<"edit:imageUploaded2", "edit:creating">>)
            /\ pc' = [pc EXCEPT ![f] = "inserting"]
    /\ UNCHANGED <<loc, isInConversationRecord, activeProjectRecord,
                   projectRecord, projects, storage, alerts, dropped, runs>>

\* How the insert can end: a row, an error, or neither.
InsertOutcomes == {"ok", "error", "empty"}

\* const imageUrl = imageData.fullPath;
ImageUrlOf(imageData) ==
    IF imageData = <<>> THEN Null ELSE imageData[1].fullPath

\* The object passed to insert (lines 152-157) with its generated id.
RowOf(l, id) ==
    [project_id |-> id, user_id |-> l.userId, title |-> l.projectName,
     description |-> l.projectDescription, slug |-> l.slug,
     avatar_url |-> ImageUrlOf(l.imageData),
     links |-> LinksOf(l.twitterLink, l.githubLink)]

\* Mutant: an upsert on user_id, the user's row is replaced.
InsertRow_UpsertByUser(table, row) ==
    IF \E i \in 1..Len(table) : table[i].user_id = row.user_id
    THEN [i \in 1..Len(table) |->
            IF table[i].user_id = row.user_id
            THEN [row EXCEPT !.project_id = i] ELSE table[i]]
    ELSE Append(table, row)

\* .from("projects").insert(row)
InsertRow(table, row) == Append(table, row)

\* Mutant: only the error is looked at, not the row.
InsertFailed_ErrorOnly(insertError, data) == insertError

\* Mutant: the result of the insert is not looked at.
InsertFailed_Unchecked(insertError, data) == FALSE

\* if (insertError || !data)
InsertFailed(insertError, data) == insertError \/ data = <<>>

\* Mutant: a field the row does not have is read (data.id): undefined.
ActiveIdOf_WrongField(row) == 0

\* activeProjectRecord[userId] = data.project_id
ActiveIdOf(row) == row.project_id

\* Lines 150-166: the insert, the check of its result, the two records.
\* data.project_id with data null is a TypeError, after line 165.
Insert(f, outcome) ==
    /\ pc[f] = "inserting"
    /\ LET u == loc[f].userId
           row == RowOf(loc[f], Len(projects) + 1)
           insertError == outcome = "error"
           data == IF outcome = "ok" THEN <<row>> ELSE <<>>
       IN
       /\ projects' = IF outcome = "ok" THEN InsertRow(projects, row)
                      ELSE projects
       /\ loc' = [loc EXCEPT ![f].data = data,
                             ![f].insertCalls = @ + 1]
       /\ IF InsertFailed(insertError, data)
          THEN /\ Say(f, <<"insertError">>)
               /\ pc' = [pc EXCEPT ![f] = "thrown"]
               /\ UNCHANGED <<projectRecord, activeProjectRecord>>
          ELSE /\ projectRecord' = [projectRecord EXCEPT ![u] = data]
               /\ UNCHANGED chat
               /\ IF data = <<>>
                  THEN /\ pc' = [pc EXCEPT ![f] = "thrown"]
                       /\ UNCHANGED activeProjectRecord
                  ELSE /\ activeProjectRecord' =
                            [activeProjectRecord EXCEPT
                               ![u] = ActiveIdOf(data[1])]
                       /\ pc' = [pc EXCEPT ![f] = "notifying"]
    /\ UNCHANGED <<isInConversationRecord, storage, alerts, dropped, runs>>

\* Lines 168-177: the status message becomes the success message and the
\* alerts channel is told.
Notify(f) ==
    /\ pc[f] = "notifying"
    /\ Say(f, <<"edit:projectCreated">>)
    /\ alerts' = Append(alerts, [run |-> loc[f].run, username |-> loc[f].username,
                                 slug |-> loc[f].slug])
    /\ pc' = [pc EXCEPT ![f] = "done"]
    /\ UNCHANGED <<loc, isInConversationRecord, activeProjectRecord,
                   projectRecord, projects, storage, dropped, runs>>

Next ==
    \E f \in Flows :
        \/ \E u \in Users : Start(f, u)
        \/ NonTextReply(f)
        \/ \E text \in Names : NameReply(f, text)
        \/ \E text \in Descriptions : DescriptionReply(f, text)
        \/ \E text \in TwitterInputs : TwitterReply(f, text)
        \/ \E text \in GithubInputs : GithubReply(f, text)
        \/ \E m \in OtherMessages : NonPhotoMessage(f, m)
        \/ \E m \in PhotoMessages : PhotoMessage(f, m)
        \/ \E o \in UploadOutcomes, path \in FilePaths : Upload(f, o, path)
        \/ AfterUpload(f)
        \/ \E o \in InsertOutcomes : Insert(f, o)
        \/ Notify(f)

Spec == Init /\ [][Next]_vars

\* ------------------------------------------------------- progress
\* The steps that take run f on: the user sends an update of the awaited
\* kind, or a call the run awaits returns or fails.
Progress(f) ==
    \/ \E text \in Names : NameReply(f, text)
    \/ \E text \in Descriptions : DescriptionReply(f, text)
    \/ \E text \in TwitterInputs : TwitterReply(f, text)
    \/ \E text \in GithubInputs : GithubReply(f, text)
    \/ \E m \in PhotoMessages : PhotoMessage(f, m)
    \/ \E o \in UploadOutcomes, path \in FilePaths : Upload(f, o, path)
    \/ AfterUpload(f)
    \/ \E o \in InsertOutcomes : Insert(f, o)
    \/ Notify(f)

\* Every user answers in the end and every awaited call ends.
SpecLive == Spec /\ \A f \in Flows : WF_vars(Progress(f))

\* ------------------------------------------------ overlapping runs
\* A run starts whatever the other runs are doing: line 43 sets the flag
\* and nothing in the function reads it.
StartOverlap(f, u) == Enter(f, u)

\* Lines 150-159 up to the await: the request reaches the table; the run
\* is suspended until the reply is delivered, and other runs may step.
InsertCall(f, outcome) ==
    /\ pc[f] = "inserting"
    /\ LET row == RowOf(loc[f], Len(projects) + 1)
       IN /\ projects' = IF outcome = "ok" THEN InsertRow(projects, row)
                         ELSE projects
          /\ loc' = [loc EXCEPT ![f].data = IF outcome = "ok" THEN <<row>>
                                            ELSE <<>>,
                                ![f].insertCalls = @ + 1]
    /\ pc' = [pc EXCEPT ![f] = "awaitInsert"]
    /\ UNCHANGED <<chat, isInConversationRecord, activeProjectRecord,
                   projectRecord, storage, alerts, dropped, runs>>

\* Lines 159-166: the reply of the insert is delivered; the check and the
\* two assignments run with no await between them.
InsertReturn(f) ==
    /\ pc[f] = "awaitInsert"
    /\ LET u == loc[f].userId
           data == loc[f].data
       IN
       \E insertError \in BOOLEAN :
          /\ insertError => data = <<>>
          /\ IF InsertFailed(insertError, data)
             THEN /\ Say(f, <<"insertError">>)
                  /\ pc' = [pc EXCEPT ![f] = "thrown"]
                  /\ UNCHANGED <<projectRecord, activeProjectRecord>>
             ELSE /\ projectRecord' = [projectRecord EXCEPT ![u] = data]
                  /\ UNCHANGED chat
                  /\ IF data = <<>>
                     THEN /\ pc' = [pc EXCEPT ![f] = "thrown"]
                          /\ UNCHANGED activeProjectRecord
                     ELSE /\ activeProjectRecord' =
                               [activeProjectRecord EXCEPT
                                  ![u] = ActiveIdOf(data[1])]
                          /\ pc' = [pc EXCEPT ![f] = "notifying"]
    /\ UNCHANGED <<loc, isInConversationRecord, projects, storage, alerts,
                   dropped, runs>>

\* The inputs tried with overlapping runs: one link skipped, one given.
\* An update that a wait
\* skips (NonTextReply, NonPhotoMessage) changes only the chat of its run
\* and moves no run, so the overlapping runs are explored without it.
OverlapTwitterInputs == {S_no}
OverlapGithubInputs  == {<<"a","-","b">>}

NextOverlap ==
    \E f \in Flows :
        \/ \E u \in Users : StartOverlap(f, u)
        \/ \E text \in Names : NameReply(f, text)
        \/ \E text \in Descriptions : DescriptionReply(f, text)
        \/ \E text \in OverlapTwitterInputs : TwitterReply(f, text)
        \/ \E text \in OverlapGithubInputs : GithubReply(f, text)
        \/ \E m \in PhotoMessages : PhotoMessage(f, m)
        \/ \E o \in UploadOutcomes, path \in FilePaths : Upload(f, o, path)
        \/ AfterUpload(f)
        \/ \E o \in InsertOutcomes : InsertCall(f, o)
        \/ InsertReturn(f)
        \/ Notify(f)

SpecOverlap == Init /\ [][NextOverlap]_vars

\* ------------------------------------------------------------- claims
Last(s) == s[Len(s)]

\* Run f has sent message m.
Sent(f, m) == \E i \in 1..Len(chat[f]) : chat[f][i] = m

\* The two record entries of f's user are what they were when f started.
RecordsAsAtStart(f) ==
    /\ activeProjectRecord[loc[f].userId] = loc[f].startActive
    /\ projectRecord[loc[f].userId] = loc[f].startProject

\* The input of run f at a link step starts with "http" and holds no
\* handle of the platform.
InvalidTwitterUrl(f) ==
    /\ loc[f].twitterInput # Null
    /\ StartsWith(loc[f].twitterInput, S_http)
    /\ \A i \in 1..Len(loc[f].twitterInput) :
           ~LitAt(loc[f].twitterInput, i, S_twitter)
           \/ i + Len(S_twitter) > Len(loc[f].twitterInput)
           \/ ~HandleChar(loc[f].twitterInput[i + Len(S_twitter)], "twitter")

InvalidGithubUrl(f) ==
    /\ loc[f].githubInput # Null
    /\ StartsWith(loc[f].githubInput, S_http)
    /\ \A i \in 1..Len(loc[f].githubInput) :
           ~LitAt(loc[f].githubInput, i, S_github)
           \/ i + Len(S_github) > Len(loc[f].githubInput)
           \/ ~HandleChar(loc[f].githubInput[i + Len(S_github)], "github")

\* The upload of run f failed: its catch block ran.
UploadFailed(f) == Sent(f, "edit:uploadError")

\* The insert of run f was issued and gave no row.
InsertGaveNoRow(f) == loc[f].insertCalls > 0 /\ loc[f].data = <<>>

\* C1: an insert is issued by a run only after a name and a description
\* were received, each link input was "no" or yielded a handle, a photo
\* message was received and the upload stored the image without error; a
\* run whose upload failed issues no insert.
C1_InsertOnlyAfterEveryStep ==
    \A f \in Flows :
        loc[f].insertCalls > 0 =>
            /\ loc[f].projectName \in Names
            /\ loc[f].projectDescription \in Descriptions
            /\ loc[f].twitterInput # Null
            /\ loc[f].twitterInput = S_no \/ loc[f].twitterId # Null
            /\ ~InvalidTwitterUrl(f)
            /\ loc[f].githubInput # Null
            /\ loc[f].githubInput = S_no \/ loc[f].githubId # Null
            /\ ~InvalidGithubUrl(f)
            /\ loc[f].message # <<>>
            /\ loc[f].message[1].photo # <<>>
            /\ ~UploadFailed(f)
            /\ loc[f].imageData # <<>>
            /\ loc[f].imageData[1].fullPath \in storage

C1_Witness ==
    \E f \in Flows :
        /\ loc[f].insertCalls = 1
        /\ loc[f].twitterInput = S_no
        /\ StartsWith(loc[f].githubInput, S_http)
        /\ loc[f].imageData[1].fullPath \in storage

\* The message of run f at the image step carried no photo.
MissingPhoto(f) == loc[f].message # <<>> /\ loc[f].message[1].photo = <<>>

C3_InvalidUrlAborts ==
    \A f \in Flows :
        /\ InvalidTwitterUrl(f) =>
              /\ Last(chat[f]) = "twitterUrlInvalid"
              /\ ~Sent(f, "prompt4")
              /\ loc[f].githubInput = Null
        /\ InvalidGithubUrl(f) => Last(chat[f]) = "githubUrlInvalid"
        /\ (InvalidTwitterUrl(f) \/ InvalidGithubUrl(f)) =>
              /\ pc[f] = "returned"
              /\ ~Sent(f, "prompt5")
              /\ ~Sent(f, "uploading")
              /\ loc[f].message = <<>>
              /\ loc[f].slug = Null
              /\ loc[f].imageData = <<>>
              /\ loc[f].insertCalls = 0
              /\ Len(projects) = loc[f].startRows
              /\ RecordsAsAtStart(f)

\* A run has returned on a Twitter URL of another site.
C3_Witness ==
    \E f \in Flows :
        /\ InvalidTwitterUrl(f)
        /\ pc[f] = "returned"
        /\ Last(chat[f]) = "twitterUrlInvalid"

\* C4: whenever a message that is not a photo message arrives at the image
\* step, the run replies with an error and returns, and the table keeps
\* its rows.
C4_NonPhotoAborts ==
    [][\A f \in Flows : \A m \in OtherMessages :
          NonPhotoMessage(f, m) =>
              /\ pc'[f] = "returned"
              /\ Last(chat'[f]) = "invalidImage"
              /\ projects' = projects]_vars

\* The titles of a links sequence, in order.
Titles(links) == [i \in 1..Len(links) |-> links[i].title]

\* The entries of a links sequence for one platform.
EntriesOf(links, title) == {i \in 1..Len(links) : links[i].title = title}

\* The row run f inserted is in the table under its id.
Inserted(f) ==
    /\ loc[f].data # <<>>
    /\ loc[f].data[1].project_id \in 1..Len(projects)
    /\ projects[loc[f].data[1].project_id] = loc[f].data[1]

ExpectedHandle(input, platform) ==
    IF StartsWith(input, S_http)
    THEN extractUsernameFromUrl(input, platform)
    ELSE input

\* The links hold exactly one entry of the platform, with this url.
HasLink(links, title, url) ==
    /\ \E i \in 1..Len(links) : links[i] = [title |-> title, url |-> url]
    /\ Cardinality(EntriesOf(links, title)) = 1

\* C6: in the row a run inserted, each platform whose input was not "no"
\* has the entry https://{platform}.com/{handle}, and a platform has no
\* entry only when its input was "no".
C6_LinkUnlessSkipped ==
    \A f \in Flows :
        loc[f].data # <<>> =>
            LET links == loc[f].data[1].links IN
            /\ IF loc[f].twitterInput = S_no
               THEN EntriesOf(links, "Twitter") = {}
               ELSE HasLink(links, "Twitter",
                            Https \o S_twitter \o
                            ExpectedHandle(loc[f].twitterInput, "twitter"))
            /\ IF loc[f].githubInput = S_no
               THEN EntriesOf(links, "GitHub") = {}
               ELSE HasLink(links, "GitHub",
                            Https \o S_github \o
                            ExpectedHandle(loc[f].githubInput, "github"))

\* input is a Twitter profile URL of handle h: http or https, with or
\* without www., the host in any case, with or without a trailing "/".
TwitterUrlOf(input, h) ==
    \E proto \in {Http, Https}, www \in {<<>>, S_www},
       host \in {S_twitter, S_Twitter}, tail \in {<<>>, <<"/">>} :
        input = proto \o www \o host \o h \o tail

\* C7: a run that received a Twitter profile URL of handle h has extracted
\* h, and the row it inserts has the Twitter link https://twitter.com/h.
C7_TwitterUrlRoundTrip ==
    \A f \in Flows : \A h \in TwitterHandles :
        (loc[f].twitterInput # Null /\ TwitterUrlOf(loc[f].twitterInput, h))
        => /\ loc[f].twitterId = h
           /\ loc[f].twitterLink = Https \o S_twitter \o h
           /\ loc[f].data # <<>> =>
                 HasLink(loc[f].data[1].links, "Twitter",
                         Https \o S_twitter \o h)

\* The messages run f has sent to the alerts channel.
AlertsOf(f) == {i \in 1..Len(alerts) : alerts[i].run = loc[f].run}

\* C8: a run whose insert gave no row has thrown, its last message is the
\* generic error, it issued one insert only, the table and its user's two
\* record entries are what they were when it started, and it sent neither
\* the success message nor a message to the alerts channel.
C8_InsertFailureIsFatal ==
    \A f \in Flows :
        InsertGaveNoRow(f) =>
            /\ pc[f] = "thrown"
            /\ Last(chat[f]) = "insertError"
            /\ loc[f].insertCalls = 1
            /\ Len(projects) = loc[f].startRows
            /\ RecordsAsAtStart(f)
            /\ ~Sent(f, "edit:projectCreated")
            /\ AlertsOf(f) = {}

\* The second run of a user whose first run created a project fails at the
\* insert.
C8_Witness ==
    \E f \in Flows :
        /\ InsertGaveNoRow(f)
        /\ Last(chat[f]) = "insertError"
        /\ loc[f].startProject # <<>>
        /\ projectRecord[loc[f].userId] = loc[f].startProject
        /\ alerts # <<>>

\* C9: a run sends at most one message to the alerts channel, and only
\* with its row in the table and both record entries of its user set to
\* that row; a run that is done has sent it, and the two record entries
\* of its user are the row it inserted and that row's project_id.
C9_RecordsThenBroadcast ==
    \A f \in Flows :
        /\ Cardinality(AlertsOf(f)) <= 1
        /\ (AlertsOf(f) # {} \/ pc[f] = "done") =>
              /\ pc[f] = "done"
              /\ Cardinality(AlertsOf(f)) = 1
              /\ Inserted(f)
              /\ loc[f].data[1].user_id = loc[f].userId
              /\ projectRecord[loc[f].userId] = loc[f].data
              /\ activeProjectRecord[loc[f].userId] =
                    loc[f].data[1].project_id
        /\ pc[f] = "notifying" =>
              /\ Inserted(f)
              /\ projectRecord[loc[f].userId] = loc[f].data
              /\ activeProjectRecord[loc[f].userId] =
                    loc[f].data[1].project_id

\* The second run of a user is done: the user's active project is the
\* second row.
C9_Witness ==
    \E f \in Flows :
        /\ pc[f] = "done"
        /\ loc[f].startActive = 1
        /\ activeProjectRecord[loc[f].userId] = 2
        /\ Len(alerts) = 2

\* C10: two runs of one user that were both done have two different
\* slugs, and the table holds two different rows of that user with these
\* slugs and different ids.
C10_TwoRunsTwoProjects ==
    \A i, j \in 1..Len(alerts) :
        (i < j /\ alerts[i].username = alerts[j].username) =>
            /\ alerts[i].slug # alerts[j].slug
            /\ \E r1, r2 \in 1..Len(projects) :
                  /\ r1 # r2
                  /\ projects[r1].project_id # projects[r2].project_id
                  /\ projects[r1].user_id = alerts[i].username
                  /\ projects[r2].user_id = alerts[i].username
                  /\ projects[r1].slug = alerts[i].slug
                  /\ projects[r2].slug = alerts[j].slug

\* One user has completed two runs.
C10_Witness ==
    /\ Len(alerts) = 2
    /\ alerts[1].username = alerts[2].username
    /\ Len(projects) = 2
    /\ projects[1].title = projects[2].title

\* C11: the flag of the user of every run that has started is true,
\* wherever the run is suspended and however it has ended, and no step
\* makes a flag that is true false.
C11_FlagNeverCleared ==
    /\ [](\A f \in Flows :
             pc[f] # "idle" => isInConversationRecord[loc[f].userId])
    /\ [][\A u \in Users :
             isInConversationRecord[u] => isInConversationRecord'[u]]_vars

\* The first user's run has ended and the run of a second user waits for
\* its description: both flags are true.
C11_Witness ==
    \E f \in Flows :
        /\ pc[f] = "awaitDescription"
        /\ loc[f].userId = "u2"
        /\ isInConversationRecord["u1"]
        /\ isInConversationRecord["u2"]

\* The run has returned after a reply that reports a validation failure.
ReturnedOnValidation(f) ==
    /\ pc[f] = "returned"
    /\ Last(chat[f]) \in {"twitterUrlInvalid", "githubUrlInvalid",
                          "invalidImage"}

\* The run has fallen through line 177 after its two notifications.
Completed(f) ==
    /\ pc[f] = "done"
    /\ Last(chat[f]) = "edit:projectCreated"
    /\ AlertsOf(f) # {}
    /\ ~UploadFailed(f)
    /\ ~InsertGaveNoRow(f)

\* The run has thrown the Error of line 162.
ThrewInsertError(f) ==
    /\ pc[f] = "thrown"
    /\ InsertGaveNoRow(f)
    /\ Last(chat[f]) = "insertError"

\* The run has thrown the TypeError of line 146.
ThrewTypeError(f) ==
    /\ pc[f] = "thrown"
    /\ UploadFailed(f)
    /\ loc[f].imageData = <<>>
    /\ loc[f].insertCalls = 0

C13_UploadFailureCaught ==
    [][\A f \in Flows : \A path \in FilePaths :
       \A o \in {"getFileError", "fetchError", "noFilePath", "storageError"} :
          Upload(f, o, path) =>
              /\ chat'[f] = chat[f] \o <<"edit:uploadError">>
              /\ pc'[f] = "uploaded"
              /\ loc'[f].imageData = <<>>
              /\ storage' = storage]_vars

\* A run is past its catch block with the error text on the status
\* message.
C13_Witness ==
    \E f \in Flows :
        /\ pc[f] = "uploaded"
        /\ Last(chat[f]) = "edit:uploadError"
        /\ loc[f].imageData = <<>>

\* The place of a step in the order of the flow.
Rank(p) ==
    CASE p = "idle"             -> 0
      [] p = "awaitName"        -> 1
      [] p = "awaitDescription" -> 2
      [] p = "awaitTwitter"     -> 3
      [] p = "awaitGithub"      -> 4
      [] p = "awaitImage"       -> 5
      [] p = "uploading"        -> 6
      [] p = "uploaded"         -> 7
      [] p = "inserting"        -> 8
      [] p = "notifying"        -> 9
      [] p \in Terminal         -> 10

AllPrompts == <<"prompt1", "prompt2", "prompt3", "prompt4", "prompt5">>

IsPrompt(m) == \E i \in 1..Len(AllPrompts) : AllPrompts[i] = m

\* The prompts run f has sent, in the order it sent them.
PromptsOf(f) == SelectSeq(chat[f], IsPrompt)

C15_NonTextAborts ==
    [][\A f \in Flows :
          NonTextReply(f) =>
              /\ Len(chat'[f]) = Len(chat[f]) + 1
              /\ pc'[f] \in Terminal]_vars

\* C15, amended: a step in which a text step receives an update without
\* text sends the reply of that step's otherwise callback and nothing
\* else; the run stays suspended at the same step, and its locals, the
\* records, the table, the bucket and the alerts channel are unchanged.
C15_NonTextSkipped ==
    [][\A f \in Flows :
          NonTextReply(f) =>
              /\ chat'[f] = chat[f] \o
                    << CASE pc[f] = "awaitName" -> "invalidProjectName"
                         [] pc[f] = "awaitDescription" -> "invalidDescription"
                         [] pc[f] = "awaitTwitter" -> "invalidTwitterInput"
                         [] pc[f] = "awaitGithub" -> "invalidGithubInput" >>
              /\ pc'[f] = pc[f]
              /\ loc' = loc
              /\ UNCHANGED <<isInConversationRecord, activeProjectRecord,
                             projectRecord, projects, storage, alerts>>]_vars

\* A run is still waiting for its Twitter input after the reply to an
\* update without text.
C15_Witness ==
    \E f \in Flows :
        /\ pc[f] = "awaitTwitter"
        /\ Last(chat[f]) = "invalidTwitterInput"
        /\ dropped = 1

\* The texts the status message is edited to.
IsStatusEdit(m) ==
    m \in {"edit:uploadError", "edit:imageUploaded", "edit:imageUploaded2",
           "edit:creating", "edit:projectCreated"}

\* The edits of the status message of run f, in order.
StatusEditsOf(f) == SelectSeq(chat[f], IsStatusEdit)

\* C17: a run whose upload failed has set its status message to neither
\* of the two "Image uploaded successfully!" texts, and the last text
\* written to its status message is the error text.
C17_SuccessTextOnlyOnSuccess ==
    \A f \in Flows :
        UploadFailed(f) =>
            /\ ~Sent(f, "edit:imageUploaded")
            /\ ~Sent(f, "edit:imageUploaded2")
            /\ Last(StatusEditsOf(f)) = "edit:uploadError"

\* The run in place f starts for user u in this step.
Starts(f, u) ==
    /\ pc[f] \in Terminal \cup {"idle"}
    /\ pc'[f] = "awaitName"
    /\ loc'[f].userId = u

\* The reply of the insert of the run in place f, of user u, is delivered
\* with a row in this step.
InsertCompletes(f, u) ==
    /\ pc[f] = "awaitInsert"
    /\ loc[f].userId = u
    /\ loc[f].data # <<>>
    /\ pc'[f] = "notifying"

\* C16: with runs overlapping in any way, the flag of user u changes only
\* in a step that starts a run of u, and the two record entries of u
\* change only in a step that completes the insert of a run of u, which
\* sets both to that run's project: the entries of the other users are
\* left alone, and between runs of one user the last insert to complete
\* decides the value.
C16_OnlyOwnEntries ==
    [][\A u \in Users :
          /\ isInConversationRecord'[u] # isInConversationRecord[u] =>
                \E f \in Flows : Starts(f, u)
          /\ (\/ activeProjectRecord'[u] # activeProjectRecord[u]
              \/ projectRecord'[u] # projectRecord[u]) =>
                \E f \in Flows :
                    /\ InsertCompletes(f, u)
                    /\ projectRecord'[u] = loc[f].data
                    /\ activeProjectRecord'[u] = loc[f].data[1].project_id
          /\ \A f \in Flows :
                InsertCompletes(f, u) =>
                    activeProjectRecord'[u] = loc[f].data[1].project_id]_vars

\* Two runs of one user overlapped; the run whose row was inserted first
\* had its insert complete last, and the user's active project is that
\* run's project, not the newest row.
C16_Witness ==
    \E f, g \in Flows :
        /\ f # g
        /\ loc[f].userId = loc[g].userId
        /\ pc[f] = "notifying" /\ pc[g] = "done"
        /\ loc[f].data # <<>> /\ loc[g].data # <<>>
        /\ loc[f].data[1].project_id < loc[g].data[1].project_id
        /\ activeProjectRecord[loc[f].userId] = loc[f].data[1].project_id

\* C18: with runs overlapping in any way, the two record entries of a user
\* are both unset, or the active project is the project_id of the user's
\* project record.
C18_RecordsAgree ==
    \A u \in Users :
        \/ activeProjectRecord[u] = 0 /\ projectRecord[u] = <<>>
        \/ /\ projectRecord[u] # <<>>
           /\ activeProjectRecord[u] = projectRecord[u][1].project_id

\* A run of a user has set both records while another run of the same
\* user, started before it, still waits for the reply of its insert.
C18_Witness ==
    \E f, g \in Flows :
        /\ f # g
        /\ loc[f].userId = loc[g].userId
        /\ loc[g].run < loc[f].run
        /\ pc[g] = "awaitInsert"
        /\ pc[f] \in {"notifying", "done"}
        /\ projectRecord[loc[f].userId] = loc[f].data
        /\ activeProjectRecord[loc[f].userId] = loc[f].data[1].project_id

\* C19: when the user sends an update of the awaited kind at every wait
\* and every awaited call ends, a run that has started reaches a terminal
\* state (done, returned or thrown), and no step takes a run back to an
\* earlier step.
C19_RunEnds ==
    /\ \A f \in Flows :
          (pc[f] \notin Terminal \cup {"idle"}) ~> (pc[f] \in Terminal)
    /\ [][\A f \in Flows :
             loc'[f].run = loc[f].run => Rank(pc'[f]) >= Rank(pc[f])]_vars

\* A run that had an update skipped at the GitHub step has ended.
C19_Witness ==
    \E f \in Flows :
        /\ pc[f] \in Terminal
        /\ Sent(f, "invalidGithubInput")

====
